---- MODULE Spec2Model ----
(***************************************************************************)
(* Model of the mortality dashboard's data preparation and aggregation     *)
(* pipeline: src/src/data_loader.py (code normalisation, age brackets,     *)
(* the memoised dataset build) and src/src/transforms.py (filters and the  *)
(* seven aggregation views), with the callback of src/app.py.              *)
(*                                                                         *)
(* Text that the code processes character by character (codes, names) is   *)
(* a sequence of one-character strings; fixed labels that are only         *)
(* compared for equality are TLA+ strings.  A cell of a raw table is a     *)
(* tagged record: an integer, a float, a string or the missing value.      *)
(***************************************************************************)
EXTENDS Integers, Sequences, FiniteSets, TLC

(***************************************************************************)
(* Bounds of the model.                                                    *)
(***************************************************************************)
MaxStrLen == 3
MaxInt == 12
MaxRecords == 2
MaxEntries == 2

(***************************************************************************)
(* Cells of a raw table, and the null marker of a string column.           *)
(***************************************************************************)
IntV(n) == [t |-> "int", n |-> n]
\* a float: the integer n when frac is FALSE, and n and a half, away from
\* zero, when frac is TRUE
FloatV(n, frac) == [t |-> "float", n |-> n, frac |-> frac]
\* the float inf, or -inf
InfV(neg) == [t |-> "inf", neg |-> neg]
NaNV == [t |-> "nan"]
StrV(s) == [t |-> "str", s |-> s]

\* pandas' <NA> in a string column: a one-element sequence whose element is
\* no character
NA == <<"<NA>">>

Digits == <<"0", "1", "2", "3", "4", "5", "6", "7", "8", "9">>
IsDigit(c) == \E i \in 1..10 : Digits[i] = c
DigitVal(c) == (CHOOSE i \in 1..10 : Digits[i] = c) - 1
AllDigits(s) == \A i \in 1..Len(s) : IsDigit(s[i])

RECURSIVE DigitsToInt(_)
DigitsToInt(s) ==
    IF Len(s) = 0 THEN 0
    ELSE 10 * DigitsToInt(SubSeq(s, 1, Len(s) - 1)) + DigitVal(s[Len(s)])

RECURSIVE NatToStr(_)
NatToStr(n) ==
    IF n < 10 THEN <<Digits[n + 1]>>
    ELSE NatToStr(n \div 10) \o <<Digits[(n % 10) + 1]>>

\* str(int)
IntToStr(n) == IF n < 0 THEN <<"-">> \o NatToStr(0 - n) ELSE NatToStr(n)

RECURSIVE Zeros(_)
Zeros(k) == IF k <= 0 THEN <<>> ELSE <<"0">> \o Zeros(k - 1)

(***************************************************************************)
(* Characters: white space and letter case.  A string is a sequence of     *)
(* characters.  The characters of the model are those of Alphabet below:   *)
(* the white space and the printable characters up to U+00FF, the white    *)
(* space above, and what upper-casing and decomposing these gives.  The    *)
(* grave accent and a character above U+00FF are written U+ and the four   *)
(* hexadecimal digits of the code point.                                   *)
(***************************************************************************)
\* the white space the numeric parser skips around a literal: the space and
\* U+0009 to U+000D
AsciiSpace == {"\t", "\n", "", "\f", "\r", " "}

\* the white space int() skips around a literal: that of AsciiSpace, U+0085,
\* U+00A0 and the spaces above U+00FF
IntSpace ==
    AsciiSpace \cup
    {"", " ", "U+1680", "U+2000", "U+2001", "U+2002", "U+2003", "U+2004",
     "U+2005", "U+2006", "U+2007", "U+2008", "U+2009", "U+200A", "U+2028", "U+2029",
     "U+202F", "U+205F", "U+3000"}

\* the white space of str.isspace(), which str.strip() removes: the
\* separators U+001C to U+001F besides
Whitespace == IntSpace \cup {"", "", "", ""}

RECURSIVE LStrip(_, _)
\* s without the characters of ws it starts with
LStrip(s, ws) == IF Len(s) > 0 /\ s[1] \in ws THEN LStrip(Tail(s), ws) ELSE s

RECURSIVE RStrip(_, _)
\* s without the characters of ws it ends with
RStrip(s, ws) ==
    IF Len(s) > 0 /\ s[Len(s)] \in ws
    THEN RStrip(SubSeq(s, 1, Len(s) - 1), ws)
    ELSE s

LowerLetters ==
    << "a", "b", "c", "d", "e", "f", "g", "h", "i", "j", "k", "l", "m", "n", "o", "p",
       "q", "r", "s", "t", "u", "v", "w", "x", "y", "z", "µ", "à", "á", "â", "ã", "ä",
       "å", "æ", "ç", "è", "é", "ê", "ë", "ì", "í", "î", "ï", "ð", "ñ", "ò", "ó", "ô",
       "õ", "ö", "ø", "ù", "ú", "û", "ü", "ý", "þ", "ÿ", "U+03BC" >>
UpperLetters ==
    << "A", "B", "C", "D", "E", "F", "G", "H", "I", "J", "K", "L", "M", "N", "O", "P",
       "Q", "R", "S", "T", "U", "V", "W", "X", "Y", "Z", "U+039C", "À", "Á", "Â", "Ã",
       "Ä", "Å", "Æ", "Ç", "È", "É", "Ê", "Ë", "Ì", "Í", "Î", "Ï", "Ð", "Ñ", "Ò", "Ó",
       "Ô", "Õ", "Ö", "Ø", "Ù", "Ú", "Û", "Ü", "Ý", "Þ", "U+0178", "U+039C" >>

\* str.upper() of one character: a letter of LowerLetters becomes the letter
\* at its place in UpperLetters, the sharp s becomes two letters, anything
\* else stays
UpperChar(c) ==
    IF c = "ß" THEN <<"S", "S">>
    ELSE IF \E i \in 1..Len(LowerLetters) : LowerLetters[i] = c
    THEN <<UpperLetters[CHOOSE i \in 1..Len(LowerLetters) : LowerLetters[i] = c]>>
    ELSE <<c>>

RECURSIVE upper(_)
\* .str.upper() of one cell, and str.upper()
upper(s) ==
    IF s = NA THEN NA
    ELSE IF Len(s) = 0 THEN <<>>
    ELSE UpperChar(s[1]) \o upper(Tail(s))

(***************************************************************************)
(* pd.to_numeric(series, errors="coerce"): every value becomes a number,   *)
(* or NaN when it does not parse.  A number is kept as its integer part,   *)
(* whether it is no integer (a non-zero fraction follows, or it is         *)
(* infinite), and whether it is held as a float.                           *)
(***************************************************************************)
Num(n, frac, float) == [t |-> "num", n |-> n, frac |-> frac, float |-> float]

RECURSIVE Pow10(_)
Pow10(k) == IF k <= 0 THEN 1 ELSE 10 * Pow10(k - 1)

IsNeg(s) == Len(s) > 0 /\ s[1] = "-"
\* a literal without its sign
Unsigned(s) == IF Len(s) > 0 /\ s[1] \in {"-", "+"} THEN Tail(s) ELSE s

\* the digits before and after the point of an unsigned mantissa
SplitAtDot(body, dots) ==
    IF dots = {} THEN [ip |-> body, fp |-> <<>>, point |-> FALSE, ok |-> TRUE]
    ELSE [ip |-> SubSeq(body, 1, (CHOOSE i \in dots : TRUE) - 1),
          fp |-> SubSeq(body, (CHOOSE i \in dots : TRUE) + 1, Len(body)),
          point |-> TRUE,
          ok |-> Cardinality(dots) = 1]

\* the mantissa and the exponent of an unsigned literal; without an "e" the
\* exponent is 0
SplitAtExp(body, exps) ==
    IF exps = {} THEN [mant |-> body, exp |-> <<"0">>, sci |-> FALSE]
    ELSE [mant |-> SubSeq(body, 1, (CHOOSE i \in exps : \A j \in exps : i <= j) - 1),
          exp |-> SubSeq(body, (CHOOSE i \in exps : \A j \in exps : i <= j) + 1, Len(body)),
          sci |-> TRUE]

\* the value digits * 10^shift, as integer part and "has a fraction"
Scaled(neg, digits, shift, float) ==
    IF shift >= 0
    THEN Num((IF neg THEN 0 - digits ELSE digits) * Pow10(shift), FALSE, float)
    ELSE Num(IF neg THEN 0 - (digits \div Pow10(0 - shift))
                    ELSE digits \div Pow10(0 - shift),
             digits % Pow10(0 - shift) # 0,
             float)

\* the exponent is [sign] digits
ParseSplit(neg, p, e) ==
    IF /\ p.ok /\ AllDigits(p.ip) /\ AllDigits(p.fp)
       /\ Len(p.ip) + Len(p.fp) >= 1
       /\ Len(Unsigned(e.exp)) >= 1 /\ AllDigits(Unsigned(e.exp))
    THEN Scaled(neg, DigitsToInt(p.ip \o p.fp),
                (IF IsNeg(e.exp) THEN 0 - DigitsToInt(Unsigned(e.exp))
                                 ELSE DigitsToInt(Unsigned(e.exp))) - Len(p.fp),
                p.point \/ e.sci)
    ELSE NaNV

\* an unsigned literal: mantissa and exponent
ParseUnsigned(neg, body) ==
    LET e == SplitAtExp(body, {i \in 1..Len(body) : body[i] \in {"e", "E"}})
    IN  ParseSplit(neg, SplitAtDot(e.mant, {i \in 1..Len(e.mant) : e.mant[i] = "."}), e)

\* a string that is, as a whole and whatever the case of its letters, "inf"
\* or "infinity" with or without a sign is the infinite float, which is no
\* integer; white space around the word makes it no number.  Any other
\* string is
\* [space] [sign] digits ["." [digits]] [("e"|"E") [sign] digits] [space],
\* or the same with "." digits as mantissa; a literal without point and
\* exponent parses to an integer, any other to a float
ParseFloat(s) ==
    IF \E w \in {<<"i", "n", "f">>, <<"i", "n", "f", "i", "n", "i", "t", "y">>} :
           /\ Len(Unsigned(s)) = Len(w)
           /\ \A i \in 1..Len(w) : Unsigned(s)[i] \in {w[i], UpperChar(w[i])[1]}
    THEN Num(0, TRUE, TRUE)
    ELSE LET literal == RStrip(LStrip(s, AsciiSpace), AsciiSpace)
         IN  ParseUnsigned(IsNeg(literal), Unsigned(literal))

to_numeric_strings_unparsed(v) ==
    CASE v.t = "int" -> Num(v.n, FALSE, FALSE)
      [] v.t = "float" -> Num(v.n, v.frac, TRUE)
      [] v.t = "inf" -> Num(0, TRUE, TRUE)
      [] OTHER -> NaNV

\* one value of the column
to_numeric(v) ==
    CASE v.t = "int" -> Num(v.n, FALSE, FALSE)
      [] v.t = "float" -> Num(v.n, v.frac, TRUE)
      [] v.t = "inf" -> Num(0, TRUE, TRUE)
      [] v.t = "str" -> ParseFloat(v.s)
      [] OTHER -> NaNV

\* the column is int64 when every value is an integer, float64 as soon as one
\* value is a float or NaN
Upcast(cells) ==
    [i \in 1..Len(cells) |->
        IF cells[i].t = "num" /\ (\E j \in 1..Len(cells) : cells[j].t = "nan" \/ cells[j].float)
        THEN Num(cells[i].n, cells[i].frac, TRUE)
        ELSE cells[i]]

to_numeric_series(series) == Upcast([i \in 1..Len(series) |-> to_numeric(series[i])])

\* .astype("Int64") refuses a column holding a non-integral float
Int64Refuses(nums) == \E i \in 1..Len(nums) : nums[i].t = "num" /\ nums[i].frac

\* .astype("Int64") of a column it accepts: integers and <NA>
astype_Int64(nums) ==
    [i \in 1..Len(nums) |->
        IF nums[i].t = "num" THEN Num(nums[i].n, FALSE, FALSE) ELSE NaNV]

\* .astype("string") of one numeric cell
NumToString(x) ==
    IF x.t = "nan" THEN NA
    ELSE IF x.float THEN IntToStr(x.n) \o <<".", "0">>
    ELSE IntToStr(x.n)

\* .str.replace(r"\.0$", "", regex=True) of one cell
StripDotZero(s) ==
    IF s = NA THEN NA
    ELSE IF Len(s) >= 2 /\ s[Len(s) - 1] = "." /\ s[Len(s)] = "0"
         THEN SubSeq(s, 1, Len(s) - 2)
         ELSE s

\* .str.zfill(width) of one cell: pads on the left, after a leading sign,
\* and never shortens
zfill(s, width) ==
    IF s = NA THEN NA
    ELSE IF Len(s) >= width THEN s
    ELSE IF s[1] = "-" \/ s[1] = "+"
         THEN <<s[1]>> \o Zeros(width - Len(s)) \o Tail(s)
         ELSE Zeros(width - Len(s)) \o s

Raised(e) == [exc |-> e, val |-> <<>>]
Returned(v) == [exc |-> "none", val |-> v]

\* lines 94-100 on the parsed column; width 0 stands for both None and 0:
\* "if width:" skips the padding
CastAndPad(nums, width) ==
    IF Int64Refuses(nums) THEN Raised("TypeError")
    ELSE Returned([i \in 1..Len(nums) |->
            IF width # 0
            THEN zfill(StripDotZero(NumToString(astype_Int64(nums)[i])), width)
            ELSE StripDotZero(NumToString(astype_Int64(nums)[i]))])

_normalize_numeric_code(series, width) == CastAndPad(to_numeric_series(series), width)

(***************************************************************************)
(* Age brackets.                                                           *)
(***************************************************************************)
DEFAULT_AGE_CATEGORY == "Edad desconocida"

AGE_CATEGORY_LABELS ==
    [code \in 0..29 |->
        CASE code \in 0..4 -> "Mortalidad neonatal"
          [] code \in 5..6 -> "Mortalidad infantil"
          [] code \in 7..8 -> "Primera infancia"
          [] code \in 9..10 -> "Niñez"
          [] code = 11 -> "Adolescencia"
          [] code \in 12..13 -> "Juventud"
          [] code \in 14..16 -> "Adultez temprana"
          [] code \in 17..19 -> "Adultez intermedia"
          [] code \in 20..24 -> "Vejez"
          [] code \in 25..28 -> "Longevidad / Centenarios"
          [] OTHER -> "Edad desconocida"]

AGE_CATEGORY_ORDER ==
    << "Mortalidad neonatal", "Mortalidad infantil", "Primera infancia",
       "Niñez", "Adolescencia", "Juventud", "Adultez temprana",
       "Adultez intermedia", "Vejez", "Longevidad / Centenarios",
       "Edad desconocida" >>

\* digits, with single underscores allowed between two digits
Grouped(body) ==
    /\ Len(body) >= 1
    /\ \A i \in 1..Len(body) : IsDigit(body[i]) \/ body[i] = "_"
    /\ \A i \in 1..Len(body) :
          body[i] = "_" => i > 1 /\ i < Len(body) /\ IsDigit(body[i - 1]) /\ IsDigit(body[i + 1])

\* int(code) of a string reads [space] [sign] digits [space], anything else
\* is a ValueError
IntParses(s) == Grouped(Unsigned(RStrip(LStrip(s, IntSpace), IntSpace)))

IntOfStr(s) ==
    LET literal == RStrip(LStrip(s, IntSpace), IntSpace)
    IN  IF IsNeg(literal)
        THEN 0 - DigitsToInt(SelectSeq(Unsigned(literal), IsDigit))
        ELSE DigitsToInt(SelectSeq(Unsigned(literal), IsDigit))

\* int(code) of an infinite float is an OverflowError, which the except
\* clause of line 108 does not name: the call raises it
_map_categoria_edad(code) ==
    IF code.t = "nan" THEN Returned(DEFAULT_AGE_CATEGORY)
    ELSE IF code.t = "inf" THEN Raised("OverflowError")
    ELSE IF code.t = "str" /\ ~IntParses(code.s) THEN Returned(DEFAULT_AGE_CATEGORY)
    ELSE LET int_code == IF code.t = "str" THEN IntOfStr(code.s) ELSE code.n
         IN  IF int_code \in DOMAIN AGE_CATEGORY_LABELS
             THEN Returned(AGE_CATEGORY_LABELS[int_code])
             ELSE Returned(DEFAULT_AGE_CATEGORY)

(***************************************************************************)
(* String cleaning.                                                        *)
(***************************************************************************)
\* .str.strip() of one cell
strip(s) == IF s = NA THEN NA ELSE LStrip(RStrip(s, Whitespace), Whitespace)

\* the dtype of a column as read_excel gives it: object as soon as one cell
\* is a string, and for a column without cells; int64 when every cell is an
\* integer; float64 for integers, floats and empty cells
Dtype(series) ==
    IF Len(series) = 0 \/ \E i \in 1..Len(series) : series[i].t = "str" THEN "object"
    ELSE IF \A i \in 1..Len(series) : series[i].t = "int" THEN "int64"
    ELSE "float64"

\* .astype("string") of one cell of a column of the given dtype: a float64
\* column holds its integers as floats, an object column holds each cell as
\* it was read
AsString(v, dtype) ==
    CASE v.t = "str" -> v.s
      [] v.t = "int" ->
            IF dtype = "float64" THEN IntToStr(v.n) \o <<".", "0">> ELSE IntToStr(v.n)
      [] v.t = "float" -> IntToStr(v.n) \o (IF v.frac THEN <<".", "5">> ELSE <<".", "0">>)
      [] v.t = "inf" -> (IF v.neg THEN <<"-">> ELSE <<>>) \o <<"i", "n", "f">>
      [] OTHER -> NA

_clean_string(series) ==
    [i \in 1..Len(series) |-> strip(AsString(series[i], Dtype(series)))]

Column(tab, f) == [i \in 1..Len(tab) |-> tab[i][f]]

RECURSIVE SelectSeq2(_, _)
\* the rows of tab at which keep is TRUE, in order (boolean-mask indexing)
SelectSeq2(tab, keep) ==
    IF Len(tab) = 0 THEN <<>>
    ELSE (IF keep[1] THEN <<tab[1]>> ELSE <<>>)
         \o SelectSeq2(Tail(tab), Tail(keep))

(***************************************************************************)
(* The loaders' post-processing and the dataset build.                     *)
(***************************************************************************)
SEXO_DEFAULT == "Sin información"
SEXO_MAP(x) ==
    IF x.t = "num" /\ x.n = 1 THEN "Masculino"
    ELSE IF x.t = "num" /\ x.n = 2 THEN "Femenino"
    ELSE SEXO_DEFAULT

\* lines 79-81: the code column, which keeps the dtype it was read with,
\* cast to strings, trimmed and upper-cased
CleanCodigos(kept, dtype) ==
    [i \in 1..Len(kept) |->
        [kept[i] EXCEPT !.codigo_cuatro =
            upper(strip(AsString(kept[i].codigo_cuatro, dtype)))]]

RECURSIVE Flatten(_)
Flatten(ss) == IF Len(ss) = 0 THEN <<>> ELSE ss[1] \o Flatten(Tail(ss))

MergeOne(l, hits) ==
    IF Len(hits) = 0
    THEN << [l |-> l, hit |-> [found |-> FALSE]] >>
    ELSE [j \in 1..Len(hits) |-> [l |-> l, hit |-> [found |-> TRUE, r |-> hits[j]]]]

\* left.merge(right, how="left"), as the pairs it forms: for every left row,
\* in order, one pair per right row with an equal key, in right order (a null
\* key equals a null key), or one pair without a right row when there is none
LeftMerge(left, right, lkey, rkey) ==
    Flatten([i \in 1..Len(left) |->
        MergeOne(left[i],
                 SelectSeq2(right, [j \in 1..Len(right) |-> right[j][rkey] = left[i][lkey]]))])

combine_first_keeps_own(a, b) == IF b # NA THEN b ELSE a

\* combine_first: the first value unless it is null
combine_first(a, b) == IF a # NA THEN a ELSE b

\* the dtype of a right column after a left merge: the rows without a match
\* hold NaN, which an int64 column cannot
MergedDtype(dtype, unmatched) == IF dtype = "int64" /\ unmatched THEN "float64" ELSE dtype

\* lines 160-179: the row after the division-catalog merge, the department
\* code resolved and the _DIVI column dropped; the names are the cells of
\* the catalog, NaN without a match
JoinDivipola(l, hit) ==
    [COD_DANE |-> l.COD_DANE,
     COD_DEPARTAMENTO |->
        combine_first(IF hit.found THEN hit.r.COD_DEPARTAMENTO ELSE NA, l.COD_DEPARTAMENTO),
     COD_MUNICIPIO |-> l.COD_MUNICIPIO,
     COD_MUERTE |-> l.COD_MUERTE,
     MANERA_MUERTE |-> l.MANERA_MUERTE,
     SEXO |-> l.SEXO,
     GRUPO_EDAD1 |-> l.GRUPO_EDAD1,
     MES |-> l.MES,
     DEPARTAMENTO |-> IF hit.found THEN hit.r.NOMBRE_DEPARTAMENTO ELSE NaNV,
     MUNICIPIO |-> IF hit.found THEN hit.r.NOMBRE_MUNICIPIO ELSE NaNV]

\* lines 181-213: the row after the cause-catalog merge, with the derived
\* columns; lines 209-210 cast the two name columns, of the dtypes given, to
\* strings, trim and upper-case them
JoinCodigos(l, hit, dtypes) ==
    [COD_DANE |-> l.COD_DANE,
     COD_DEPARTAMENTO |-> l.COD_DEPARTAMENTO,
     COD_MUNICIPIO |-> l.COD_MUNICIPIO,
     COD_MUERTE |-> l.COD_MUERTE,
     MANERA_MUERTE |-> l.MANERA_MUERTE,
     SEXO |-> l.SEXO,
     GRUPO_EDAD1 |-> l.GRUPO_EDAD1,
     MES |-> l.MES,
     DEPARTAMENTO |-> upper(strip(AsString(l.DEPARTAMENTO, dtypes.DEPARTAMENTO))),
     MUNICIPIO |-> upper(strip(AsString(l.MUNICIPIO, dtypes.MUNICIPIO))),
     codigo_cuatro |-> IF hit.found THEN hit.r.codigo_cuatro ELSE NA,
     DESCRIPCION_COD_MUERTE |-> IF hit.found THEN hit.r.descripcion_cuatro ELSE NA,
     categoria_edad |-> _map_categoria_edad(l.GRUPO_EDAD1).val,
     SEXO_DESC |-> SEXO_MAP(l.SEXO)]

CodeWidth == [COD_DANE |-> 5, COD_DEPARTAMENTO |-> 2, COD_MUNICIPIO |-> 3]

\* the three administrative code columns of a table, normalised
NormalizeCodes(tab) ==
    [f \in DOMAIN CodeWidth |-> _normalize_numeric_code(Column(tab, f), CodeWidth[f])]

CodesRefused(codes) == \E f \in DOMAIN CodeWidth : codes[f].exc # "none"

\* lines 135-144: the mortality table with its columns normalised
MortalidadRows(mortalidad, codes, cod, man, sexo) ==
    [i \in 1..Len(mortalidad) |->
        [COD_DANE |-> codes.COD_DANE.val[i],
         COD_DEPARTAMENTO |-> codes.COD_DEPARTAMENTO.val[i],
         COD_MUNICIPIO |-> codes.COD_MUNICIPIO.val[i],
         COD_MUERTE |-> upper(cod[i]),
         MANERA_MUERTE |-> man[i],
         SEXO |-> sexo[i],
         GRUPO_EDAD1 |-> mortalidad[i].GRUPO_EDAD1,
         MES |-> mortalidad[i].MES]]

NormalizeMortalidad(mortalidad, codes, sexo) ==
    IF CodesRefused(codes) \/ Int64Refuses(sexo) THEN Raised("TypeError")
    ELSE Returned(MortalidadRows(mortalidad, codes,
                                 _clean_string(Column(mortalidad, "COD_MUERTE")),
                                 _clean_string(Column(mortalidad, "MANERA_MUERTE")),
                                 astype_Int64(sexo)))

\* lines 146-158 and the column selection of line 161
DivipolaRows(divipola, codes) ==
    [i \in 1..Len(divipola) |->
        [COD_DANE |-> codes.COD_DANE.val[i],
         COD_DEPARTAMENTO |-> codes.COD_DEPARTAMENTO.val[i],
         NOMBRE_DEPARTAMENTO |-> divipola[i].DEPARTAMENTO,
         NOMBRE_MUNICIPIO |-> divipola[i].MUNICIPIO]]

NormalizeDivipola(divipola, codes) ==
    IF CodesRefused(codes) THEN Raised("TypeError")
    ELSE Returned(DivipolaRows(divipola, codes))

MapJoinDivipola(pairs) == [k \in 1..Len(pairs) |-> JoinDivipola(pairs[k].l, pairs[k].hit)]
MapJoinCodigos(pairs, dtypes) ==
    [k \in 1..Len(pairs) |-> JoinCodigos(pairs[k].l, pairs[k].hit, dtypes)]

\* lines 160-213 on the normalised tables; a name column of the dataset has
\* the dtype of the catalog's column, merged into the records of which some
\* may have no entry; the exception of an age-group code that line 208
\* cannot classify leaves the build
MergeTables(m, d, codigos) ==
    IF m.exc # "none" THEN m
    ELSE IF d.exc # "none" THEN d
    ELSE IF \E i \in 1..Len(m.val) : _map_categoria_edad(m.val[i].GRUPO_EDAD1).exc # "none"
    THEN Raised("OverflowError")
    ELSE Returned(MapJoinCodigos(
            LeftMerge(MapJoinDivipola(LeftMerge(m.val, d.val, "COD_DANE", "COD_DANE")),
                      codigos, "COD_MUERTE", "codigo_cuatro"),
            [f \in {"DEPARTAMENTO", "MUNICIPIO"} |->
                MergedDtype(
                    Dtype(Column(d.val, IF f = "DEPARTAMENTO" THEN "NOMBRE_DEPARTAMENTO"
                                                              ELSE "NOMBRE_MUNICIPIO")),
                    \E i \in 1..Len(m.val) :
                        \A j \in 1..Len(d.val) : d.val[j].COD_DANE # m.val[i].COD_DANE)]))

\* lines 135-213 of build_full_dataset: the three tables as the loaders
\* returned them, to the enriched row-set (or the exception of a cast)
EnrichTables(mortalidad, codigos, divipola) ==
    MergeTables(NormalizeMortalidad(mortalidad, NormalizeCodes(mortalidad),
                                    to_numeric_series(Column(mortalidad, "SEXO"))),
                NormalizeDivipola(divipola, NormalizeCodes(divipola)),
                codigos)

(***************************************************************************)
(* transforms.py: filters.  A filter on a label column (sex description,   *)
(* age bracket) is a TLA+ string, a filter on a text column (department,   *)
(* manner of death) a sequence of characters; None has its own token in    *)
(* each.                                                                   *)
(***************************************************************************)
ALL_VALUE == "ALL"
ALL_TEXT == <<"A", "L", "L">>
NONE == "<None>"
NONE_TEXT == <<"<None>">>
HOMICIDIO_CODE_PREFIX == <<"X", "9", "5">>
HOMICIDIO == <<"H", "O", "M", "I", "C", "I", "D", "I", "O">>
SIN_REGISTRO == <<"S", "I", "N", " ", "R", "E", "G", "I", "S", "T", "R", "O">>
SIN_CODIGO == <<"S", "i", "n", " ", "c", "ó", "d", "i", "g", "o">>
NO_DISPONIBLE == <<"D", "e", "s", "c", "r", "i", "p", "c", "i", "ó", "n", " ", "n", "o", " ", "d", "i", "s", "p", "o", "n", "i", "b", "l", "e">>

\* "if value": None and the empty string are falsy
Truthy(label) == label # NONE /\ label # ""
TruthyText(text) == text # NONE_TEXT /\ text # <<>>

\* df.copy()
Copy(df) == [i \in 1..Len(df) |-> df[i]]

FilterSexo(filtered, sexo) ==
    IF Truthy(sexo) /\ sexo # ALL_VALUE
    THEN SelectSeq(filtered, LAMBDA r : r.SEXO_DESC = sexo)
    ELSE filtered

FilterDepartamento(filtered, departamento) ==
    IF TruthyText(departamento) /\ departamento # ALL_TEXT
    THEN SelectSeq(filtered, LAMBDA r : r.DEPARTAMENTO = departamento)
    ELSE filtered

FilterCategoriaEdad(filtered, categoria_edad) ==
    IF Truthy(categoria_edad) /\ categoria_edad # ALL_VALUE
    THEN SelectSeq(filtered, LAMBDA r : r.categoria_edad = categoria_edad)
    ELSE filtered

_apply_filters_department_on_df(df, sexo, departamento, categoria_edad) ==
    FilterCategoriaEdad(
        IF TruthyText(departamento) /\ departamento # ALL_TEXT
        THEN FilterDepartamento(Copy(df), departamento)
        ELSE FilterSexo(Copy(df), sexo),
        categoria_edad)

_apply_filters(df, sexo, departamento, categoria_edad) ==
    FilterCategoriaEdad(
        FilterDepartamento(FilterSexo(Copy(df), sexo), departamento), categoria_edad)

_filter_by_manera(df, manera) ==
    IF ~TruthyText(manera) \/ manera = ALL_TEXT THEN df
    ELSE SelectSeq(df, LAMBDA r :
            r.MANERA_MUERTE # NA /\ upper(r.MANERA_MUERTE) = upper(manera))

\* .fillna("") of one cell
FillEmpty(text) == IF text = NA THEN <<>> ELSE text

StartsWith(text, prefix) ==
    Len(text) >= Len(prefix) /\ SubSeq(text, 1, Len(prefix)) = prefix

_filter_homicidios_manner_only(df) ==
    SelectSeq(df, LAMBDA r : upper(FillEmpty(r.MANERA_MUERTE)) = HOMICIDIO)

_filter_homicidios(df) ==
    SelectSeq(df, LAMBDA r :
        \/ upper(FillEmpty(r.MANERA_MUERTE)) = HOMICIDIO
        \/ StartsWith(upper(FillEmpty(r.COD_MUERTE)), HOMICIDIO_CODE_PREFIX))

(***************************************************************************)
(* groupby(keys).size().reset_index(name="muertes"): one row per distinct  *)
(* key, in ascending key order with the null keys last, or without the     *)
(* rows that have a null key when dropna holds.                            *)
(***************************************************************************)
\* the characters of the model in code-point order
Alphabet ==
    << "\t", "\n", "", "\f", "\r", "", "", "", "", " ", "!", "\"", "#", "$", "%",
       "&", "'", "(", ")", "*", "+", ",", "-", ".", "/", "0", "1", "2", "3", "4", "5",
       "6", "7", "8", "9", ":", ";", "<", "=", ">", "?", "@", "A", "B", "C", "D", "E",
       "F", "G", "H", "I", "J", "K", "L", "M", "N", "O", "P", "Q", "R", "S", "T", "U",
       "V", "W", "X", "Y", "Z", "[", "\\", "]", "^", "_", "U+0060", "a", "b", "c", "d",
       "e", "f", "g", "h", "i", "j", "k", "l", "m", "n", "o", "p", "q", "r", "s", "t",
       "u", "v", "w", "x", "y", "z", "{", "|", "}", "~", "", " ", "¡", "¢", "£", "¤",
       "¥", "¦", "§", "¨", "©", "ª", "«", "¬", "®", "¯", "°", "±", "²", "³", "´", "µ",
       "¶", "·", "¸", "¹", "º", "»", "¼", "½", "¾", "¿", "À", "Á", "Â", "Ã", "Ä", "Å",
       "Æ", "Ç", "È", "É", "Ê", "Ë", "Ì", "Í", "Î", "Ï", "Ð", "Ñ", "Ò", "Ó", "Ô", "Õ",
       "Ö", "×", "Ø", "Ù", "Ú", "Û", "Ü", "Ý", "Þ", "ß", "à", "á", "â", "ã", "ä", "å",
       "æ", "ç", "è", "é", "ê", "ë", "ì", "í", "î", "ï", "ð", "ñ", "ò", "ó", "ô", "õ",
       "ö", "÷", "ø", "ù", "ú", "û", "ü", "ý", "þ", "ÿ", "U+0178", "U+039C", "U+03BC",
       "U+1680", "U+2000", "U+2001", "U+2002", "U+2003", "U+2004", "U+2005", "U+2006",
       "U+2007", "U+2008", "U+2009", "U+200A", "U+2028", "U+2029", "U+202F", "U+2044",
       "U+205F", "U+3000" >>
CharOrd(c) == CHOOSE i \in 1..Len(Alphabet) : Alphabet[i] = c

\* the labels of the label columns, in string order
SortedLabels ==
    << "Adolescencia", "Adultez intermedia", "Adultez temprana", "Edad desconocida",
       "Femenino", "Juventud", "Longevidad / Centenarios", "Masculino",
       "Mortalidad infantil", "Mortalidad neonatal", "Niñez", "Primera infancia",
       "Sin información", "Vejez" >>

FieldKind(f) ==
    CASE f \in {"SEXO_DESC", "categoria_edad"} -> "label"
      [] f = "MES" -> "cell"
      [] OTHER -> "text"

IsNull(f, v) ==
    CASE FieldKind(f) = "label" -> FALSE
      [] FieldKind(f) = "cell" -> v.t = "nan"
      [] OTHER -> v = NA

\* the place of a value in the sort order of its column, as a sequence of
\* integers compared from the left
FieldOrd(f, v) ==
    CASE IsNull(f, v) -> <<1>>
      [] FieldKind(f) = "label" ->
            <<0, CHOOSE i \in 1..Len(SortedLabels) : SortedLabels[i] = v>>
      [] FieldKind(f) = "cell" -> <<0, v.n>>
      [] OTHER -> <<0>> \o [i \in 1..Len(v) |-> CharOrd(v[i])] \o <<0>>

KeyOrd(row, keys) == Flatten([k \in 1..Len(keys) |-> FieldOrd(keys[k], row[keys[k]])])

RECURSIVE SeqLess(_, _)
SeqLess(a, b) ==
    IF Len(b) = 0 THEN FALSE
    ELSE IF Len(a) = 0 THEN TRUE
    ELSE IF a[1] # b[1] THEN a[1] < b[1]
    ELSE SeqLess(Tail(a), Tail(b))

KeySet(keys) == {keys[k] : k \in 1..Len(keys)}

GroupRow(rows, keys, i) ==
    [f \in KeySet(keys) \cup {"muertes"} |->
        IF f = "muertes"
        THEN Cardinality({j \in 1..Len(rows) : \A k \in KeySet(keys) : rows[j][k] = rows[i][k]})
        ELSE rows[i][f]]

MinGroup(groups, keys) ==
    CHOOSE g \in groups :
        \A h \in groups : h = g \/ SeqLess(KeyOrd(g, keys), KeyOrd(h, keys))

RECURSIVE SortGroups(_, _)
SortGroups(groups, keys) ==
    IF groups = {} THEN <<>>
    ELSE <<MinGroup(groups, keys)>>
         \o SortGroups(groups \ {MinGroup(groups, keys)}, keys)

CountGroups(rows, keys) ==
    SortGroups({GroupRow(rows, keys, i) : i \in 1..Len(rows)}, keys)

GroupSize(rows, keys, dropna) ==
    IF dropna
    THEN CountGroups(SelectSeq(rows, LAMBDA r : \A f \in KeySet(keys) : ~IsNull(f, r[f])), keys)
    ELSE CountGroups(rows, keys)

RECURSIVE SortBy(_, _)
\* the first row with the largest count (sign 1) or the smallest (sign -1):
\* sort_values("muertes") sorts with kind="quicksort", which is not stable:
\* the rows come by count, and rows of equal count in an order that the
\* build of numpy decides.  The value is the set of the orders the call may
\* return; sign is 1 for the largest count first, -1 for the smallest.
SortBy(rows, sign) ==
    UNION {IF Len(r) = 0 THEN {<<>>}
           ELSE UNION {{<<r[i]>> \o rest :
                          rest \in SortBy(SubSeq(r, 1, i - 1) \o SubSeq(r, i + 1, Len(r)), sign)} :
                       i \in {k \in 1..Len(r) :
                                \A j \in 1..Len(r) :
                                    sign * r[k].muertes >= sign * r[j].muertes}} :
           r \in {rows}}

\* sort_values("muertes", ascending=False)
SortDescending(rows) == SortBy(rows, 1)

\* sort_values("muertes", ascending=True)
SortAscending(rows) == SortBy(rows, -1)

CategoryIndex(label) ==
    CHOOSE i \in 1..Len(AGE_CATEGORY_ORDER) : AGE_CATEGORY_ORDER[i] = label

\* the first row of the earliest category
FirstCategory(rows) ==
    CHOOSE i \in 1..Len(rows) :
        /\ \A j \in 1..Len(rows) :
              CategoryIndex(rows[i].categoria_edad) <= CategoryIndex(rows[j].categoria_edad)
        /\ \A j \in 1..(i - 1) :
              CategoryIndex(rows[i].categoria_edad) < CategoryIndex(rows[j].categoria_edad)

RECURSIVE SortByCategory(_)
\* sort_values on the ordered categorical
SortByCategory(rows) ==
    IF Len(rows) = 0 THEN <<>>
    ELSE <<rows[FirstCategory(rows)]>>
         \o SortByCategory(SubSeq(rows, 1, FirstCategory(rows) - 1)
                           \o SubSeq(rows, FirstCategory(rows) + 1, Len(rows)))

\* .head(n)
head(rows, n) == SubSeq(rows, 1, IF Len(rows) < n THEN Len(rows) ELSE n)

\* frame[col].fillna(fill)
FillNa(rows, col, fill) ==
    [i \in 1..Len(rows) |-> IF rows[i][col] = NA THEN [rows[i] EXCEPT ![col] = fill] ELSE rows[i]]

\* frame[frame[col].notna()]
NotNa(rows, col) == SelectSeq(rows, LAMBDA r : r[col] # NA)

(***************************************************************************)
(* The seven aggregations.  Each works on its local frames: df, the shared *)
(* row-set it was handed, and grouped, the frame groupby returned; a       *)
(* column assignment writes into the frame it names.  The value is the     *)
(* shared row-set after the call and the rows returned; for an aggregation *)
(* that sorts by count it is the set of these, one for each order the sort *)
(* may return.                                                             *)
(***************************************************************************)
Frames(df, grouped) == [df |-> df, grouped |-> grouped]

\* frame[col] = frame[col].fillna(fill), in place
AssignFillNa(frames, frame, col, fill) ==
    [frames EXCEPT ![frame] = FillNa(frames[frame], col, fill)]

Done(df, rows) == [df |-> df, out |-> Returned(rows)]

MapaFinish(frames) ==
    {Done(frames.df, sorted) :
        sorted \in SortDescending(NotNa(frames.grouped, "COD_DEPARTAMENTO"))}

get_mapa_departamentos_fill_shared(df, sexo, departamento, categoria_edad, manera_muerte) ==
    MapaFinish(AssignFillNa(
        Frames(df, GroupSize(
            _filter_by_manera(_apply_filters(df, sexo, departamento, categoria_edad),
                              manera_muerte),
            <<"COD_DEPARTAMENTO", "DEPARTAMENTO">>, FALSE)),
        "df", "DEPARTAMENTO", SIN_REGISTRO))

get_mapa_departamentos(df, sexo, departamento, categoria_edad, manera_muerte) ==
    MapaFinish(AssignFillNa(
        Frames(df, GroupSize(
            _filter_by_manera(_apply_filters(df, sexo, departamento, categoria_edad),
                              manera_muerte),
            <<"COD_DEPARTAMENTO", "DEPARTAMENTO">>, FALSE)),
        "grouped", "DEPARTAMENTO", SIN_REGISTRO))

\* grouped["MES"] = grouped["MES"].astype("Int64"), in place
AssignMesInt64(frames) ==
    [frames EXCEPT !.grouped =
        [i \in 1..Len(frames.grouped) |->
            [frames.grouped[i] EXCEPT !.MES = astype_Int64(<<to_numeric(@)>>)[1]]]]

SeriesFinish(frames) ==
    IF Int64Refuses(to_numeric_series(Column(frames.grouped, "MES")))
    THEN [df |-> frames.df, out |-> Raised("TypeError")]
    ELSE Done(AssignMesInt64(frames).df, AssignMesInt64(frames).grouped)

get_series_mensuales(df, sexo, departamento, categoria_edad) ==
    SeriesFinish(Frames(df,
        GroupSize(_apply_filters(df, sexo, departamento, categoria_edad), <<"MES">>, TRUE)))

Top5Finish(frames) ==
    {Done(frames.df, head(sorted, 5)) : sorted \in SortDescending(frames.grouped)}

get_top5_ciudades_violentas(df, sexo, departamento, categoria_edad) ==
    Top5Finish(AssignFillNa(
        Frames(df, NotNa(GroupSize(
            _filter_homicidios(_apply_filters(df, sexo, departamento, categoria_edad)),
            <<"MUNICIPIO", "DEPARTAMENTO">>, FALSE), "MUNICIPIO")),
        "grouped", "DEPARTAMENTO", SIN_REGISTRO))

Bottom10Finish(frames) ==
    {Done(frames.df, head(sorted, 10)) : sorted \in SortAscending(frames.grouped)}

get_bottom10_ciudades_menos_muertes(df, sexo, departamento, categoria_edad) ==
    Bottom10Finish(AssignFillNa(
        Frames(df, SelectSeq(
            GroupSize(_apply_filters(df, sexo, departamento, categoria_edad),
                      <<"MUNICIPIO", "DEPARTAMENTO">>, FALSE),
            LAMBDA g : g.MUNICIPIO # NA /\ g.muertes > 0)),
        "grouped", "DEPARTAMENTO", SIN_REGISTRO))

Top10Finish(frames) ==
    {Done(frames.df, head(sorted, 10)) : sorted \in SortDescending(frames.grouped)}

get_top10_causas(df, sexo, departamento, categoria_edad) ==
    Top10Finish(AssignFillNa(AssignFillNa(
        Frames(df, GroupSize(_apply_filters(df, sexo, departamento, categoria_edad),
                             <<"COD_MUERTE", "DESCRIPCION_COD_MUERTE">>, FALSE)),
        "grouped", "DESCRIPCION_COD_MUERTE", NO_DISPONIBLE),
        "grouped", "COD_MUERTE", SIN_CODIGO))

BarrasFinish(frames) ==
    {Done(frames.df, sorted) : sorted \in SortDescending(frames.grouped)}

\* the fillna of SEXO_DESC finds nothing to fill: the column has no nulls
get_barras_apiladas_sexo(df, sexo, departamento, categoria_edad) ==
    BarrasFinish(AssignFillNa(
        Frames(df, GroupSize(_apply_filters(df, sexo, departamento, categoria_edad),
                             <<"DEPARTAMENTO", "SEXO_DESC">>, FALSE)),
        "grouped", "DEPARTAMENTO", SIN_REGISTRO))

HistogramaFinish(frames) == Done(frames.df, SortByCategory(frames.grouped))

get_histograma_categorias_edad(df, sexo, departamento, categoria_edad) ==
    HistogramaFinish(
        Frames(df, GroupSize(_apply_filters(df, sexo, departamento, categoria_edad),
                             <<"categoria_edad">>, FALSE)))

(***************************************************************************)
(* app.py: the department map.  GEOJSON_DATA is read from                  *)
(* data/colombia_departamentos.geojson, one feature per department with    *)
(* its name and its id; three of its features stand for the file here.     *)
(***************************************************************************)
GEOJSON_DATA ==
    { [NAME_1 |-> <<"M", "e", "t", "a">>, GID_1 |-> "COL.20_1"],
      [NAME_1 |-> <<"H", "u", "i", "l", "a">>, GID_1 |-> "COL.16_1"],
      [NAME_1 |-> <<"V", "a", "u", "p", "é", "s">>, GID_1 |-> "COL.31_1"] }

\* NFKD of one character without the combining characters it gives: an
\* accented letter becomes its base letter, a compatibility character what
\* it stands for
Decompose(c) ==
    CASE c \in {" ", "¨", "¯", "´", "¸", "U+2000", "U+2001", "U+2002", "U+2003",
                 "U+2004", "U+2005", "U+2006", "U+2007", "U+2008", "U+2009",
                 "U+200A", "U+202F", "U+205F", "U+3000"} -> <<" ">>
      [] c \in {"ª", "à", "á", "â", "ã", "ä", "å"} -> <<"a">>
      [] c = "²" -> <<"2">>
      [] c = "³" -> <<"3">>
      [] c = "µ" -> <<"U+03BC">>
      [] c = "¹" -> <<"1">>
      [] c \in {"º", "ò", "ó", "ô", "õ", "ö"} -> <<"o">>
      [] c = "¼" -> <<"1", "U+2044", "4">>
      [] c = "½" -> <<"1", "U+2044", "2">>
      [] c = "¾" -> <<"3", "U+2044", "4">>
      [] c \in {"À", "Á", "Â", "Ã", "Ä", "Å"} -> <<"A">>
      [] c = "Ç" -> <<"C">>
      [] c \in {"È", "É", "Ê", "Ë"} -> <<"E">>
      [] c \in {"Ì", "Í", "Î", "Ï"} -> <<"I">>
      [] c = "Ñ" -> <<"N">>
      [] c \in {"Ò", "Ó", "Ô", "Õ", "Ö"} -> <<"O">>
      [] c \in {"Ù", "Ú", "Û", "Ü"} -> <<"U">>
      [] c \in {"Ý", "U+0178"} -> <<"Y">>
      [] c = "ç" -> <<"c">>
      [] c \in {"è", "é", "ê", "ë"} -> <<"e">>
      [] c \in {"ì", "í", "î", "ï"} -> <<"i">>
      [] c = "ñ" -> <<"n">>
      [] c \in {"ù", "ú", "û", "ü"} -> <<"u">>
      [] c \in {"ý", "ÿ"} -> <<"y">>
      [] OTHER -> <<c>>

\* str.isalnum of one character
IsAlnum(c) ==
    \/ IsDigit(c)
    \/ \E i \in 1..Len(LowerLetters) : LowerLetters[i] = c \/ UpperLetters[i] = c
    \/ c \in {"ª", "²", "³", "¹", "º", "¼", "½", "¾", "ß"}

_normalize_geo_name(value) ==
    SelectSeq(upper(Flatten([i \in 1..Len(value) |-> Decompose(value[i])])), IsAlnum)

GEO_LOOKUP == {[key |-> _normalize_geo_name(f.NAME_1), id |-> f.GID_1] : f \in GEOJSON_DATA}

SPECIAL_NAME_FIXES(normalized) ==
    IF normalized =
         << "A", "R", "C", "H", "I", "P", "I", "E", "L", "A", "G", "O", "D", "E",
         "S", "A", "N", "A", "N", "D", "R", "E", "S", "P", "R", "O", "V", "I",
         "D", "E", "N", "C", "I", "A", "Y", "S", "A", "N", "T", "A", "C", "A",
         "T", "A", "L", "I", "N", "A" >>
    THEN << "S", "A", "N", "A", "N", "D", "R", "E", "S", "Y", "P", "R", "O", "V",
         "I", "D", "E", "N", "C", "I", "A" >>
    ELSE normalized

\* GEO_LOOKUP.get of the fixed name: the id, or None.  The column it is
\* applied to has no null left; an empty name has no id
_department_to_geo_id(departamento) ==
    LET normalized == SPECIAL_NAME_FIXES(_normalize_geo_name(departamento))
    IN  IF departamento # <<>> /\ \E e \in GEO_LOOKUP : e.key = normalized
        THEN (CHOOSE e \in GEO_LOOKUP : e.key = normalized).id
        ELSE NONE

\* lines 278-279: mapa_df["geo_id"] = ..., written into the table the
\* aggregation returned, then dropna(subset=["geo_id"])
WithGeoId(rows) ==
    SelectSeq([i \in 1..Len(rows) |->
                  [f \in DOMAIN rows[i] \cup {"geo_id"} |->
                      IF f = "geo_id" THEN _department_to_geo_id(rows[i].DEPARTAMENTO)
                      ELSE rows[i][f]]],
              LAMBDA r : r.geo_id # NONE)

(***************************************************************************)
(* app.py, update_dashboard: the seven aggregations, one after the other,  *)
(* on DF_FULL with the values of the four dropdowns.  Of the table         *)
(* get_mapa_departamentos returned, the callback keeps the departments the *)
(* map has a feature for.  The figures built from the tables are           *)
(* presentation.  An exception of one aggregation ends the callback.  The  *)
(* value is the set of the results the callback may give, one for each     *)
(* order the sorts may return.                                             *)
(***************************************************************************)
Inputs(sexo, departamento, categoria_edad, manera) ==
    [sexo |-> sexo, departamento |-> departamento,
     categoria_edad |-> categoria_edad, manera |-> manera]

Collect(acc, r) ==
    IF acc.exc # "none" THEN acc
    ELSE [df |-> r.df, exc |-> r.out.exc, outs |-> Append(acc.outs, r.out.val)]

ThenMapa(accs, f) ==
    UNION {{Collect(acc, Done(r.df, WithGeoId(r.out.val))) :
              r \in get_mapa_departamentos(acc.df, f.sexo, f.departamento,
                                           f.categoria_edad, f.manera)} : acc \in accs}
ThenSeries(accs, f) ==
    {Collect(acc, get_series_mensuales(acc.df, f.sexo, f.departamento, f.categoria_edad)) :
        acc \in accs}
ThenTop5(accs, f) ==
    UNION {{Collect(acc, r) :
              r \in get_top5_ciudades_violentas(acc.df, f.sexo, f.departamento,
                                                f.categoria_edad)} : acc \in accs}
ThenBottom10(accs, f) ==
    UNION {{Collect(acc, r) :
              r \in get_bottom10_ciudades_menos_muertes(acc.df, f.sexo, f.departamento,
                                                        f.categoria_edad)} : acc \in accs}
ThenTop10(accs, f) ==
    UNION {{Collect(acc, r) :
              r \in get_top10_causas(acc.df, f.sexo, f.departamento,
                                     f.categoria_edad)} : acc \in accs}
ThenBarras(accs, f) ==
    UNION {{Collect(acc, r) :
              r \in get_barras_apiladas_sexo(acc.df, f.sexo, f.departamento,
                                             f.categoria_edad)} : acc \in accs}
ThenHistograma(accs, f) ==
    {Collect(acc, get_histograma_categorias_edad(acc.df, f.sexo, f.departamento,
                                                 f.categoria_edad)) : acc \in accs}

CallbackResult(acc) ==
    [df |-> acc.df,
     out |-> IF acc.exc = "none" THEN Returned(acc.outs) ELSE Raised(acc.exc)]

update_dashboard(df, f) ==
    {CallbackResult(acc) : acc \in
        ThenHistograma(ThenBarras(ThenTop10(ThenBottom10(ThenTop5(ThenSeries(ThenMapa(
            {[df |-> df, exc |-> "none", outs |-> <<>>]}, f), f), f), f), f), f), f)}

\* lines 87-90 and _build_options: what the dropdowns offer
sexo_options(df) == {ALL_VALUE} \cup {df[i].SEXO_DESC : i \in 1..Len(df)}
departamento_options(df) ==
    {ALL_TEXT} \cup ({df[i].DEPARTAMENTO : i \in 1..Len(df)} \ {NA})
categoria_options(df) == {ALL_VALUE} \cup {df[i].categoria_edad : i \in 1..Len(df)}
manera_options(df) ==
    {ALL_TEXT} \cup ({df[i].MANERA_MUERTE : i \in 1..Len(df)} \ {NA})

(***************************************************************************)
(* Inputs of the pure functions.                                           *)
(***************************************************************************)
RECURSIVE SeqsUpTo(_, _)
\* the sequences over S of length 0..n
SeqsUpTo(S, n) ==
    IF n = 0 THEN {<<>>}
    ELSE LET shorter == SeqsUpTo(S, n - 1)
         IN  shorter \cup {Append(q, x) : q \in {r \in shorter : Len(r) = n - 1}, x \in S}

CodeChars == {"0", "1", "7", "-", ".", "a"}
CodeStrings == SeqsUpTo(CodeChars, MaxStrLen)
SmallInts == (0 - MaxInt)..MaxInt

\* strings with a plus sign, white space around the literal (the last but
\* one starts with a line tabulation, the last one ends in a no-break
\* space), an exponent, an underscore, or the word inf
SpelledStrings ==
    { <<"+", "5">>, <<"+">>, <<" ", "7">>, <<"7", " ">>, <<"\t", "7", "\n">>,
      <<"-", " ", "7">>, <<"1", "e", "1">>, <<"1", "E", "+", "1">>, <<"7", "e", "0">>,
      <<"1", "e", "-", "1">>, <<"1", ".", "5", "e", "1">>, <<"1", "e">>, <<"e", "1">>,
      <<"1", "_", "0">>, <<"i", "n", "f">>, <<"-", "I", "n", "f">>, <<" ", "i", "n", "f">>,
      <<"", "7">>, <<"7", " ">> }

\* what a cell of a code column may hold
CodeCells ==
    {IntV(n) : n \in SmallInts}
    \cup {FloatV(n, f) : n \in SmallInts, f \in BOOLEAN}
    \cup {NaNV}
    \cup {StrV(q) : q \in CodeStrings \cup SpelledStrings}

\* a second value of the same column
Companions == {IntV(7), FloatV(7, FALSE), StrV(<<"7">>), NaNV, StrV(<<"a">>), FloatV(1, TRUE)}

\* the widths build_full_dataset passes, and 0 for no width
Widths == {0} \cup {CodeWidth[k] : k \in DOMAIN CodeWidth}

NormalizeCalls ==
    [fn : {"normalize"},
     series : {<<c>> : c \in CodeCells}
              \cup {<<c, k>> : c \in CodeCells, k \in Companions}
              \cup {<<k, c>> : c \in CodeCells, k \in Companions},
     width : Widths]

\* the fourth from the end starts with a no-break space, the next ends in a
\* next line U+0085, the last two have a separator U+001D and U+001C
AgeStrings ==
    { <<"2", "8">>, <<"2", "9">>, <<"3", "0">>, <<" ", "2", "8", " ">>, <<"2", "_", "8">>,
      <<"_", "1">>, <<"1", "_">>, <<"1", "_", "_", "0">>, <<"+", " ", "5">>, <<" ", "7">>,
      <<"7", "">>, <<"7", "">>, <<"", "2", "8">> }

AgeCells ==
    {IntV(n) : n \in (0 - MaxInt)..(29 + MaxInt)}
    \cup {FloatV(n, f) : n \in (0 - MaxInt)..(29 + MaxInt), f \in BOOLEAN}
    \cup {InfV(neg) : neg \in BOOLEAN}
    \cup {NaNV}
    \cup {StrV(q) : q \in CodeStrings \cup SpelledStrings \cup AgeStrings}

ClassifyCalls == [fn : {"classify"}, code : AgeCells]

\* raw tables of the build: a few records and catalogue entries that differ in
\* what the joins and the derived columns look at
RecMeta ==
    [COD_DANE |-> IntV(50001), COD_DEPARTAMENTO |-> IntV(50), COD_MUNICIPIO |-> IntV(1),
     COD_MUERTE |-> StrV(<<"x", "9", "5", "0", " ">>), MANERA_MUERTE |-> StrV(<<"N", "a", "t", "u", "r", "a", "l">>),
     SEXO |-> IntV(1), GRUPO_EDAD1 |-> IntV(3), MES |-> IntV(1)]
RecHuila ==
    [COD_DANE |-> IntV(41001), COD_DEPARTAMENTO |-> NaNV, COD_MUNICIPIO |-> IntV(1),
     COD_MUERTE |-> IntV(950), MANERA_MUERTE |-> StrV(<<"N", "a", "t", "u", "r", "a", "l">>),
     SEXO |-> IntV(2), GRUPO_EDAD1 |-> IntV(29), MES |-> IntV(2)]
RecBlank ==
    [COD_DANE |-> NaNV, COD_DEPARTAMENTO |-> IntV(50), COD_MUNICIPIO |-> NaNV,
     COD_MUERTE |-> NaNV, MANERA_MUERTE |-> NaNV,
     SEXO |-> NaNV, GRUPO_EDAD1 |-> NaNV, MES |-> NaNV]
RecConflict ==
    [COD_DANE |-> StrV(<<"5", "0", "0", "0", "1">>), COD_DEPARTAMENTO |-> IntV(41), COD_MUNICIPIO |-> IntV(1),
     COD_MUERTE |-> StrV(<<"W", "0", "0", "0">>), MANERA_MUERTE |-> StrV(<<" ", "h", "o", "m", "i", "c", "i", "d", "i", "o">>),
     SEXO |-> IntV(3), GRUPO_EDAD1 |-> IntV(15), MES |-> IntV(1)]
RecFraction ==
    [COD_DANE |-> IntV(50001), COD_DEPARTAMENTO |-> FloatV(50, TRUE), COD_MUNICIPIO |-> IntV(1),
     COD_MUERTE |-> StrV(<<"A", "0", "0", "0">>), MANERA_MUERTE |-> StrV(<<"N", "a", "t", "u", "r", "a", "l">>),
     SEXO |-> IntV(1), GRUPO_EDAD1 |-> IntV(20), MES |-> IntV(2)]

RecNoCity ==
    [COD_DANE |-> IntV(41001), COD_DEPARTAMENTO |-> IntV(41), COD_MUNICIPIO |-> IntV(1),
     COD_MUERTE |-> StrV(<<"Y", "0", "9">>), MANERA_MUERTE |-> StrV(<<"H", "o", "m", "i", "c", "i", "d", "i", "o">>),
     SEXO |-> IntV(2), GRUPO_EDAD1 |-> IntV(20), MES |-> IntV(3)]

\* a record whose age-group code is the float inf
RecInfAge == [RecMeta EXCEPT !.GRUPO_EDAD1 = InfV(FALSE)]

MortalityPool == {RecMeta, RecHuila, RecBlank, RecConflict, RecFraction, RecNoCity}

DivMeta ==
    [COD_DANE |-> IntV(50001), COD_DEPARTAMENTO |-> IntV(50), COD_MUNICIPIO |-> IntV(1),
     DEPARTAMENTO |-> StrV(<<"M", "e", "t", "a">>), MUNICIPIO |-> StrV(<<" ", "V", "c", "i", "o">>)]
DivMetaAgain ==
    [COD_DANE |-> StrV(<<"5", "0", "0", "0", "1">>), COD_DEPARTAMENTO |-> IntV(50), COD_MUNICIPIO |-> IntV(1),
     DEPARTAMENTO |-> StrV(<<"m", "e", "t", "a", "\t">>), MUNICIPIO |-> StrV(<<"M", "i", "t", "ú", "ß">>)]
DivHuila ==
    [COD_DANE |-> IntV(41001), COD_DEPARTAMENTO |-> NaNV, COD_MUNICIPIO |-> IntV(1),
     DEPARTAMENTO |-> StrV(<<"H", "u", "i", "l", "a">>), MUNICIPIO |-> NaNV]
DivFooter ==
    [COD_DANE |-> StrV(<<"T", "o", "t", "a", "l">>), COD_DEPARTAMENTO |-> IntV(99), COD_MUNICIPIO |-> NaNV,
     DEPARTAMENTO |-> StrV(<<"T", "o", "t", "a", "l">>), MUNICIPIO |-> IntV(8)]

DivipolaPool == {DivMeta, DivMetaAgain, DivHuila, DivFooter}

CodX950 ==
    [codigo_cuatro |-> StrV(<<"X", "9", "5", "0">>),
     descripcion_cuatro |-> <<"A", "g", "r", "e", "s", "i", "o", "n">>]
CodX950Again ==
    [codigo_cuatro |-> StrV(<<" ", "x", "9", "5", "0", "\n">>),
     descripcion_cuatro |-> <<"A", "r", "m", "a">>]
CodNoCode == [codigo_cuatro |-> NaNV, descripcion_cuatro |-> <<"N", "o", "t", "a">>]
CodNumber == [codigo_cuatro |-> IntV(950), descripcion_cuatro |-> <<"R", "a", "r", "a">>]

CodigosPool == {CodX950, CodX950Again, CodNoCode, CodNumber}

CodigosFile == <<CodX950, CodNoCode>>
DivipolaFile == <<DivMeta, DivHuila>>

\* a registry of more cities than the ranking of cities returns: six cities
\* of one department, of which city k has as many homicides as CityOfDeath
\* has entries k, the last two as many as each other; the homicides of city
\* 6 are homicides by their cause code only
DivCity(k) ==
    [COD_DANE |-> IntV(50010 + k), COD_DEPARTAMENTO |-> IntV(50), COD_MUNICIPIO |-> IntV(10 + k),
     DEPARTAMENTO |-> StrV(<<"M", "e", "t", "a">>), MUNICIPIO |-> StrV(<<"C", Digits[k + 1]>>)]
RecCity(k) ==
    [COD_DANE |-> IntV(50010 + k), COD_DEPARTAMENTO |-> IntV(50), COD_MUNICIPIO |-> IntV(10 + k),
     COD_MUERTE |-> IF k = 6 THEN StrV(<<"x", "9", "5", "0">>) ELSE StrV(<<"Y", "0", "9">>),
     MANERA_MUERTE |-> IF k = 6 THEN StrV(<<"N", "a", "t", "u", "r", "a", "l">>)
                       ELSE StrV(<<"H", "o", "m", "i", "c", "i", "d", "i", "o">>),
     SEXO |-> IntV(1), GRUPO_EDAD1 |-> IntV(20), MES |-> IntV(1)]
RecCityNatural ==
    [RecCity(1) EXCEPT !.MANERA_MUERTE = StrV(<<"N", "a", "t", "u", "r", "a", "l">>)]
CityOfDeath == <<1, 1, 1, 1, 1, 2, 2, 2, 2, 3, 3, 3, 4, 4, 5, 6>>
\* the homicides of the six cities, one homicide of a place without a
\* municipality name and one natural death
CityDeaths ==
    [i \in 1..Len(CityOfDeath) |-> RecCity(CityOfDeath[i])] \o <<RecNoCity, RecCityNatural>>
CitiesFile == [k \in 1..6 |-> DivCity(k)] \o <<DivHuila>>

\* each catalogue varies against a fixed other one; one registry holds an
\* age-group code that cannot be classified
BuildCalls ==
    [fn : {"build"}, m : SeqsUpTo(MortalityPool, MaxRecords),
     c : SeqsUpTo(CodigosPool, MaxEntries), d : {DivipolaFile}]
    \cup [fn : {"build"}, m : SeqsUpTo(MortalityPool, MaxRecords),
          c : {CodigosFile}, d : SeqsUpTo(DivipolaPool, MaxEntries)]
    \cup [fn : {"build"}, m : {<<RecHuila, RecInfAge>>}, c : {CodigosFile}, d : {DivipolaFile}]

(***************************************************************************)
(* State.                                                                  *)
(*   call, result   a pure function's input and what it returned           *)
(*   files          the three sources on disk: present or not, and rows    *)
(*   pc, tabs, ret  each caller of build_full_dataset: where it is, the    *)
(*                  tables it has loaded, what its call returned           *)
(*   cache          the lru_cache entry of build_full_dataset; DF_FULL of  *)
(*                  app.py is the same object                              *)
(*   out            the result of the aggregation call in progress         *)
(*   firstRet, after, reads, filler, missed, bodyRuns, envChanges          *)
(*                  history of the run                                     *)
(***************************************************************************)
VARIABLES call, result, files, pc, tabs, ret, cache, out,
          firstRet, after, reads, filler, missed, bodyRuns, envChanges

fnVars == <<call, result>>
buildVars == <<files, pc, tabs, ret, firstRet, after, reads, filler, missed,
               bodyRuns, envChanges>>
vars == <<call, result, files, pc, tabs, ret, cache, out,
          firstRet, after, reads, filler, missed, bodyRuns, envChanges>>

Pending == [exc |-> "pending", val |-> <<>>]
NoCall == [fn |-> "none"]
Idle == [op |-> "idle"]

NumCallers == 2
MaxEnvChanges == 1
MaxBodyRuns == 3
Callers == 1..NumCallers

Sources == {"mortalidad", "codigos", "divipola"}
File(present, rows) == [present |-> present, rows |-> rows]

\* what each source may be on disk
FileStates(s) ==
    CASE s = "mortalidad" ->
            {File(FALSE, <<>>), File(TRUE, <<RecMeta, RecHuila>>), File(TRUE, <<RecConflict>>)}
      [] s = "codigos" -> {File(FALSE, <<>>), File(TRUE, CodigosFile)}
      [] OTHER -> {File(FALSE, <<>>), File(TRUE, DivipolaFile)}

EmptyCache == [full |-> FALSE, df |-> <<>>]

\* the locals of a call that is not in the body
NoTables == [m |-> <<>>, c |-> <<>>, d |-> <<>>]

BuildIdle ==
    /\ pc = [c \in Callers |-> "idle"]
    /\ tabs = [c \in Callers |-> NoTables]
    /\ ret = [c \in Callers |-> Pending]
    /\ firstRet = Pending
    /\ after = [c \in Callers |-> FALSE]
    /\ reads = [c \in Callers |-> 0]
    /\ missed = [c \in Callers |-> FALSE]
    /\ filler = 0
    /\ bodyRuns = 0
    /\ envChanges = 0

(***************************************************************************)
(* SpecFn: the pure functions on bounded inputs.                           *)
(***************************************************************************)
PureInit ==
    /\ call \in NormalizeCalls \cup ClassifyCalls \cup BuildCalls
    /\ result = Pending
    /\ files = [s \in Sources |-> File(FALSE, <<>>)]
    /\ BuildIdle
    /\ cache = EmptyCache
    /\ out = Idle

ApplyNormalize ==
    /\ call.fn = "normalize" /\ result.exc = "pending"
    /\ result' = _normalize_numeric_code(call.series, call.width)
    /\ UNCHANGED <<call, buildVars, cache, out>>

ApplyClassify ==
    /\ call.fn = "classify" /\ result.exc = "pending"
    /\ result' = _map_categoria_edad(call.code)
    /\ UNCHANGED <<call, buildVars, cache, out>>

\* _load_excel: the rows of the file, or FileNotFoundError
_load_excel_empty_when_missing(f) == Returned(f.rows)

_load_excel(f) == IF f.present THEN Returned(f.rows) ELSE Raised("FileNotFoundError")

\* the registry as read
load_mortalidad(f) == _load_excel(f)

\* the cause catalog as read, then lines 78-81: drop the entries without a
\* four-character code, trim and upper-case the code; the exception of the
\* read is passed on
load_codigos_muerte(f) ==
    IF _load_excel(f).exc = "none"
    THEN LET raw == _load_excel(f).val
         IN  Returned(CleanCodigos(
                 SelectSeq2(raw, [i \in 1..Len(raw) |-> raw[i].codigo_cuatro.t # "nan"]),
                 Dtype(Column(raw, "codigo_cuatro"))))
    ELSE _load_excel(f)

\* the division catalog as read
load_divipola(f) == _load_excel(f)

\* lines 131-213, the body of build_full_dataset on sources that are present
build_body(mortalidad, codigos_raw, divipola) ==
    EnrichTables(load_mortalidad(File(TRUE, mortalidad)).val,
                 load_codigos_muerte(File(TRUE, codigos_raw)).val,
                 load_divipola(File(TRUE, divipola)).val)

ApplyBuild ==
    /\ call.fn = "build" /\ result.exc = "pending"
    /\ result' = build_body(call.m, call.c, call.d)
    /\ UNCHANGED <<call, buildVars, cache, out>>

PureNext == ApplyNormalize \/ ApplyClassify \/ ApplyBuild

SpecFn == PureInit /\ [][PureNext]_vars

(***************************************************************************)
(* SpecBuild: callers of the memoised build_full_dataset, step by step,    *)
(* while the sources on disk may change.                                   *)
(***************************************************************************)
CacheHit_never(c) == FALSE

\* the lookup of the lru_cache wrapper
CacheHit(c) == c.full

\* the wrapper's store after the body returned: a result that another call
\* stored meanwhile is kept
CacheStore(c, df) == IF c.full THEN c ELSE [full |-> TRUE, df |-> df]

BuildInit ==
    /\ call = NoCall /\ result = Pending
    /\ files \in [Sources -> UNION {FileStates(s) : s \in Sources}]
    /\ \A s \in Sources : files[s] \in FileStates(s)
    /\ BuildIdle
    /\ cache = EmptyCache
    /\ out = Idle

\* the sources change on disk
EnvChange(s) ==
    /\ envChanges < MaxEnvChanges
    /\ \E f \in FileStates(s) \ {files[s]} : files' = [files EXCEPT ![s] = f]
    /\ envChanges' = envChanges + 1
    /\ UNCHANGED <<call, result, pc, tabs, ret, cache, out, firstRet, after, reads,
                   filler, missed, bodyRuns>>

\* build_full_dataset() is called: the wrapper returns the cached object, or
\* enters the body.  Caller 1 is the import of app.py, which calls once
\* (line 34); any other caller calls again at will
Call(c) ==
    /\ pc[c] = "idle" \/ (pc[c] = "done" /\ c # 1)
    /\ after' = [after EXCEPT ![c] = firstRet.exc # "pending"]
    /\ reads' = [reads EXCEPT ![c] = 0]
    /\ missed' = [missed EXCEPT ![c] = FALSE]
    /\ tabs' = [tabs EXCEPT ![c] = NoTables]
    /\ IF CacheHit(cache)
       THEN /\ ret' = [ret EXCEPT ![c] = Returned(cache.df)]
            /\ pc' = [pc EXCEPT ![c] = "done"]
            /\ firstRet' = IF firstRet.exc = "pending" THEN Returned(cache.df) ELSE firstRet
            /\ UNCHANGED bodyRuns
       ELSE /\ bodyRuns < MaxBodyRuns
            /\ ret' = [ret EXCEPT ![c] = Pending]
            /\ pc' = [pc EXCEPT ![c] = "load_mortalidad"]
            /\ bodyRuns' = bodyRuns + 1
            /\ UNCHANGED firstRet
    /\ UNCHANGED <<call, result, files, cache, out, filler, envChanges>>

\* one loader call of the body: its rows become a local of the body, or its
\* exception leaves the body
Load(c, at, s, loaded, field, next) ==
    /\ pc[c] = at
    /\ missed' = [missed EXCEPT ![c] = @ \/ ~files[s].present]
    /\ IF loaded.exc = "none"
       THEN /\ tabs' = [tabs EXCEPT ![c][field] = loaded.val]
            /\ reads' = [reads EXCEPT ![c] = @ + 1]
            /\ pc' = [pc EXCEPT ![c] = next]
            /\ UNCHANGED ret
       ELSE /\ ret' = [ret EXCEPT ![c] = loaded]
            /\ pc' = [pc EXCEPT ![c] = "done"]
            /\ tabs' = [tabs EXCEPT ![c] = NoTables]
            /\ UNCHANGED reads
    /\ UNCHANGED <<call, result, files, cache, out, firstRet, after, filler,
                   bodyRuns, envChanges>>

\* line 131
LoadMortalidad(c) ==
    Load(c, "load_mortalidad", "mortalidad", load_mortalidad(files.mortalidad),
         "m", "load_codigos")

\* line 132
LoadCodigos(c) ==
    Load(c, "load_codigos", "codigos", load_codigos_muerte(files.codigos),
         "c", "load_divipola")

\* line 133
LoadDivipola(c) ==
    Load(c, "load_divipola", "divipola", load_divipola(files.divipola), "d", "enrich")

\* the wrapper after the body returned: an exception is passed on and nothing
\* is stored; a result is stored and returned
StoreAndReturn(c, built) ==
    /\ ret' = [ret EXCEPT ![c] = built]
    /\ IF built.exc = "none"
       THEN /\ cache' = CacheStore(cache, built.val)
            /\ filler' = IF cache.full THEN filler ELSE c
            /\ firstRet' = IF firstRet.exc = "pending" THEN built ELSE firstRet
       ELSE UNCHANGED <<cache, filler, firstRet>>

\* lines 135-213 on the loaded tables, then the wrapper stores and returns
\* the result
EnrichAndStore(c) ==
    /\ pc[c] = "enrich"
    /\ StoreAndReturn(c, EnrichTables(tabs[c].m, tabs[c].c, tabs[c].d))
    /\ pc' = [pc EXCEPT ![c] = "done"]
    /\ tabs' = [tabs EXCEPT ![c] = NoTables]
    /\ UNCHANGED <<call, result, files, out, after, reads, missed,
                   bodyRuns, envChanges>>

(***************************************************************************)
(* Aggregation calls on the shared row-set.  A call computes its result    *)
(* from DF_FULL; the caller then takes the result.                         *)
(***************************************************************************)
SexoFilters == {NONE, "", ALL_VALUE, "Masculino", "masculino"}
DepartamentoFilters == {NONE_TEXT, ALL_TEXT, <<"M", "E", "T", "A">>, <<"m", "e", "t", "a">>}
EdadFilters == {NONE, ALL_VALUE, "Mortalidad neonatal"}
ManeraFilters == {ALL_TEXT, <<"N", "A", "T", "U", "R", "A", "L">>, <<"h", "o", "m", "i", "c", "i", "d", "i", "o">>}

\* DF_FULL is built and no call is under way
\* app.py line 34, DF_FULL = build_full_dataset(): the application is caller
\* 1, and DF_FULL the object its call returned
DF_FULL == ret[1].val

\* the application serves once its import has bound DF_FULL
Ready == pc[1] = "done" /\ ret[1].exc = "none" /\ out.op = "idle"

\* caller c holds the cached object: it stored it, or the wrapper handed it
\* out on a hit
HoldsCached(c) == pc[c] = "done" /\ ret[c].exc = "none" /\ (filler = c \/ reads[c] = 0)

\* a call on DF_FULL has returned: out is its result, and what the call
\* wrote into the object shows under every name the object has
Respond(op, f, r) ==
    /\ out' = [op |-> op, f |-> f, res |-> r.out]
    /\ ret' = [c \in Callers |->
                  IF c = 1 \/ (HoldsCached(1) /\ HoldsCached(c)) THEN Returned(r.df)
                  ELSE ret[c]]
    /\ cache' = IF HoldsCached(1) THEN [cache EXCEPT !.df = r.df] ELSE cache
    /\ UNCHANGED <<call, result, files, pc, tabs, firstRet, after, reads, filler,
                   missed, bodyRuns, envChanges>>

ApplyFilters ==
    /\ Ready
    /\ \E sexo \in SexoFilters, departamento \in DepartamentoFilters, categoria_edad \in EdadFilters :
           Respond("_apply_filters", Inputs(sexo, departamento, categoria_edad, NONE_TEXT),
                   Done(DF_FULL, _apply_filters(DF_FULL, sexo, departamento, categoria_edad)))

GetMapaDepartamentos ==
    /\ Ready
    /\ \E sexo \in SexoFilters, departamento \in DepartamentoFilters,
          categoria_edad \in EdadFilters, manera \in ManeraFilters \cup {NONE_TEXT} :
           \E r \in get_mapa_departamentos(DF_FULL, sexo, departamento, categoria_edad, manera) :
               Respond("get_mapa_departamentos", Inputs(sexo, departamento, categoria_edad, manera),
                       r)

GetSeriesMensuales ==
    /\ Ready
    /\ \E sexo \in SexoFilters, departamento \in DepartamentoFilters, categoria_edad \in EdadFilters :
           Respond("get_series_mensuales", Inputs(sexo, departamento, categoria_edad, NONE_TEXT),
                   get_series_mensuales(DF_FULL, sexo, departamento, categoria_edad))

GetTop5CiudadesViolentas ==
    /\ Ready
    /\ \E sexo \in SexoFilters, departamento \in DepartamentoFilters, categoria_edad \in EdadFilters :
           \E r \in get_top5_ciudades_violentas(DF_FULL, sexo, departamento, categoria_edad) :
               Respond("get_top5_ciudades_violentas", Inputs(sexo, departamento, categoria_edad, NONE_TEXT),
                       r)

GetBottom10CiudadesMenosMuertes ==
    /\ Ready
    /\ \E sexo \in SexoFilters, departamento \in DepartamentoFilters, categoria_edad \in EdadFilters :
           \E r \in get_bottom10_ciudades_menos_muertes(DF_FULL, sexo, departamento, categoria_edad) :
               Respond("get_bottom10_ciudades_menos_muertes",
                       Inputs(sexo, departamento, categoria_edad, NONE_TEXT),
                       r)

GetTop10Causas ==
    /\ Ready
    /\ \E sexo \in SexoFilters, departamento \in DepartamentoFilters, categoria_edad \in EdadFilters :
           \E r \in get_top10_causas(DF_FULL, sexo, departamento, categoria_edad) :
               Respond("get_top10_causas", Inputs(sexo, departamento, categoria_edad, NONE_TEXT),
                       r)

GetBarrasApiladasSexo ==
    /\ Ready
    /\ \E sexo \in SexoFilters, departamento \in DepartamentoFilters, categoria_edad \in EdadFilters :
           \E r \in get_barras_apiladas_sexo(DF_FULL, sexo, departamento, categoria_edad) :
               Respond("get_barras_apiladas_sexo", Inputs(sexo, departamento, categoria_edad, NONE_TEXT),
                       r)

GetHistogramaCategoriasEdad ==
    /\ Ready
    /\ \E sexo \in SexoFilters, departamento \in DepartamentoFilters, categoria_edad \in EdadFilters :
           Respond("get_histograma_categorias_edad",
                   Inputs(sexo, departamento, categoria_edad, NONE_TEXT),
                   get_histograma_categorias_edad(DF_FULL, sexo, departamento, categoria_edad))

\* the Dash callback, fired with the values the dropdowns offer
UpdateDashboard ==
    /\ Ready
    /\ \E sexo \in sexo_options(DF_FULL), departamento \in departamento_options(DF_FULL),
          categoria_edad \in categoria_options(DF_FULL), manera \in manera_options(DF_FULL) :
           \E r \in update_dashboard(DF_FULL, Inputs(sexo, departamento, categoria_edad, manera)) :
               Respond("update_dashboard", Inputs(sexo, departamento, categoria_edad, manera), r)

\* the callback as Dash fires it when the page loads: every dropdown at its
\* default, ALL
PageLoad ==
    /\ Ready
    /\ \E r \in update_dashboard(DF_FULL, Inputs(ALL_VALUE, ALL_TEXT, ALL_VALUE, ALL_TEXT)) :
           Respond("update_dashboard", Inputs(ALL_VALUE, ALL_TEXT, ALL_VALUE, ALL_TEXT), r)

\* the caller takes the result
Deliver ==
    /\ out.op # "idle"
    /\ out' = Idle
    /\ UNCHANGED <<call, result, buildVars, cache>>

BuildNext ==
    \/ \E s \in Sources : EnvChange(s)
    \/ \E c \in Callers : Call(c)
    \/ \E c \in Callers : LoadMortalidad(c)
    \/ \E c \in Callers : LoadCodigos(c)
    \/ \E c \in Callers : LoadDivipola(c)
    \/ \E c \in Callers : EnrichAndStore(c)
    \/ PageLoad
    \/ Deliver

SpecBuild == BuildInit /\ [][BuildNext]_vars

(***************************************************************************)
(* SpecAgg: the application after its import, line 34 of app.py: caller 1  *)
(* has built DF_FULL from sources that were present.                       *)
(***************************************************************************)
Imported(m, d, built) ==
    /\ built.exc = "none"
    /\ call = NoCall /\ result = Pending
    /\ files = [s \in Sources |->
                  CASE s = "mortalidad" -> File(TRUE, m)
                    [] s = "codigos" -> File(TRUE, CodigosFile)
                    [] OTHER -> File(TRUE, d)]
    /\ pc = [c \in Callers |-> IF c = 1 THEN "done" ELSE "idle"]
    /\ tabs = [c \in Callers |->
                  NoTables]
    /\ ret = [c \in Callers |-> IF c = 1 THEN built ELSE Pending]
    /\ firstRet = built
    /\ after = [c \in Callers |-> FALSE]
    /\ reads = [c \in Callers |-> IF c = 1 THEN 3 ELSE 0]
    /\ missed = [c \in Callers |-> FALSE]
    /\ filler = 1
    /\ bodyRuns = 1
    /\ envChanges = 0
    /\ cache = [full |-> TRUE, df |-> built.val]
    /\ out = Idle

\* the registry is a few records against the two-entry catalog, or the
\* registry of the six cities
AggInit ==
    \/ \E m \in SeqsUpTo(MortalityPool, MaxRecords) :
           Imported(m, DivipolaFile, build_body(m, CodigosFile, DivipolaFile))
    \/ Imported(CityDeaths, CitiesFile, build_body(CityDeaths, CodigosFile, CitiesFile))

AggNext ==
    \/ ApplyFilters
    \/ GetMapaDepartamentos
    \/ GetSeriesMensuales
    \/ GetTop5CiudadesViolentas
    \/ GetBottom10CiudadesMenosMuertes
    \/ GetTop10Causas
    \/ GetBarrasApiladasSexo
    \/ GetHistogramaCategoriasEdad
    \/ UpdateDashboard
    \/ PageLoad
    \/ Deliver

SpecAgg == AggInit /\ [][AggNext]_vars

(***************************************************************************)
(* Properties of the code normaliser and the age classifier (SpecFn).      *)
(***************************************************************************)
NormalizeDone == call.fn = "normalize" /\ result.exc # "pending"

\* a value that is empty, non-numeric or not an integer
Malformed(v) == to_numeric(v).t = "nan" \/ to_numeric(v).frac

\* C6: normalize_numeric_code never raises: every value that is empty,
\* non-numeric or not an integer (such as a number with a non-zero
\* fractional part) becomes the null marker, and the other values of the same
\* input are still normalised.
C6_NormalizeNeverRaises ==
    NormalizeDone =>
        /\ result.exc = "none"
        /\ Len(result.val) = Len(call.series)
        /\ \A i \in 1..Len(call.series) :
              (result.val[i] = NA) <=> Malformed(call.series[i])

AdminWidths == {2, 3, 5}

\* C7: after normalisation every non-null administrative code is a string of
\* exactly the field's width made only of digits, for every numeric input,
\* also one with more digits than the width and a negative one.
C7_CodesAreFixedWidthDigits ==
    (NormalizeDone /\ call.width \in AdminWidths /\ result.exc = "none") =>
        \A i \in 1..Len(result.val) :
            result.val[i] # NA =>
                Len(result.val[i]) = call.width /\ AllDigits(result.val[i])

\* the ways the integer n arrives: as an integer, as a float with a trailing
\* .0, as a numeric string (written with or without leading zeros, a plus
\* sign, a space around it, a trailing .0 or an exponent of 0)
ArrivalsOf(n) ==
    {IntV(n), FloatV(n, FALSE)}
    \cup {StrV(zfill(IntToStr(n), k)) : k \in 0..MaxStrLen}
    \cup {StrV(IntToStr(n) \o <<".", "0">>)}
    \cup {StrV(<<"+">> \o NatToStr(n)) : k \in {m \in {n} : m >= 0}}
    \cup {StrV(<<" ">> \o IntToStr(n)), StrV(IntToStr(n) \o <<" ">>)}
    \cup {StrV(<<"">> \o IntToStr(n))}
    \cup {StrV(IntToStr(n) \o <<"e", "0">>)}

\* C8: for every integer n and width w the output string is the same whether n
\* arrives as an integer, as a float with a trailing .0 or as a numeric string.
C8_SameOutputForEveryArrival ==
    (NormalizeDone /\ Len(call.series) = 1) =>
        \A n \in SmallInts :
            call.series[1] \in ArrivalsOf(n) =>
                /\ result.exc = "none"
                /\ result.val = <<zfill(IntToStr(n), call.width)>>

C8_Witness ==
    /\ NormalizeDone
    /\ call.series = <<StrV(<<"0", "7">>)>> /\ call.width = 5
    /\ result = Returned(<< <<"0", "0", "0", "0", "7">> >>)

ClassifyDone == call.fn = "classify" /\ result.exc # "pending"

OrderLabels == {AGE_CATEGORY_ORDER[i] : i \in 1..Len(AGE_CATEGORY_ORDER)}

\* white space other than the four separators U+001C to U+001F
Blank(c) == c \in Whitespace /\ c \notin {"", "", "", ""}

\* an integer written as a string the way int() reads it: between blanks, an
\* optional sign and then digits, where an underscore may separate two
\* digits
WritesAnInteger(s) ==
    \E lo \in 1..Len(s), hi \in 1..Len(s), k \in 0..1 :
        /\ lo + k <= hi
        /\ \A i \in 1..(lo - 1) : Blank(s[i])
        /\ \A i \in (hi + 1)..Len(s) : Blank(s[i])
        /\ k = 1 => s[lo] \in {"-", "+"}
        /\ IsDigit(s[lo + k]) /\ IsDigit(s[hi])
        /\ \A i \in (lo + k + 1)..hi :
              IsDigit(s[i]) \/ (s[i] = "_" /\ IsDigit(s[i - 1]))

\* C9: classify_age returns one of the 11 labels of the display order: a label
\* other than "unknown age" for each integer code 0..28, and "unknown age" for
\* code 29, for every integer outside 0..29 and for a null or unparseable code.
C9_ClassifyAgeTable ==
    ClassifyDone =>
        /\ result.exc = "none"
        /\ result.val \in OrderLabels
        /\ Cardinality(OrderLabels) = 11
        /\ (call.code.t = "int" /\ call.code.n \in 0..28)
              => result.val # "Edad desconocida"
        /\ (call.code.t = "int" /\ call.code.n \notin 0..28)
              => result.val = "Edad desconocida"
        /\ call.code.t = "nan" => result.val = "Edad desconocida"
        /\ (call.code.t = "str" /\ ~WritesAnInteger(call.code.s))
              => result.val = "Edad desconocida"

BuildDone == call.fn = "build" /\ result.exc # "pending"

\* C5: the enriched row-set holds exactly one row per original mortality
\* record, for every content of the division catalog and the cause catalog,
\* also when several entries share a join key.
C5_OneRowPerRecord ==
    (BuildDone /\ result.exc = "none") => Len(result.val) = Len(call.m)

(***************************************************************************)
(* Properties of the memoised build (SpecBuild).                           *)
(***************************************************************************)
InBody(c) == pc[c] \in {"load_mortalidad", "load_codigos", "load_divipola", "enrich"}

\* C1: when several callers invoke build_full_dataset before any build has
\* completed, the build body runs at most once: no second caller runs the
\* loaders while the first one builds, nor after it has built.
C1_BuildBodyAtMostOnce ==
    /\ Cardinality({c \in Callers : InBody(c)}) <= 1
    /\ cache.full => \A c \in Callers : ~InBody(c)

\* C2: after one call to build_full_dataset has returned successfully, every
\* later call returns the cached row-set, equal by value to the first result,
\* and reads none of the three sources again.
C2_LaterCallsReturnCached ==
    \A c \in Callers :
        after[c] =>
            /\ ~InBody(c)
            /\ reads[c] = 0
            /\ pc[c] = "done" => ret[c] = firstRet

C2_Witness ==
    \E c \in Callers :
        /\ after[c] /\ pc[c] = "done"
        /\ ret[c] = firstRet /\ Len(ret[c].val) > 0
        /\ ~files["mortalidad"].present

\* C3: if one of the three sources is missing when the build runs, the call
\* ends with the missing-source error, and that call neither returns a dataset
\* nor leaves one in the cache.
C3_MissingSourceIsFatal ==
    \A c \in Callers :
        missed[c] =>
            /\ pc[c] = "done"
            /\ ret[c] = Raised("FileNotFoundError")
            /\ filler # c

C3_Witness ==
    \E c \in Callers :
        /\ missed[c] /\ pc[c] = "done"
        /\ ret[c].exc = "FileNotFoundError"
        /\ ~files["divipola"].present
        /\ reads[c] >= 2
        /\ ~cache.full

(***************************************************************************)
(* Claims about the aggregations (SpecAgg).                                *)
(***************************************************************************)
\* C4: after any sequence of aggregation calls, with any filter values, the
\* shared row-set is the row-set build_full_dataset returned: same rows, same
\* order, same field values.
C4_SharedRowSetUnchanged ==
    DF_FULL = firstRet.val /\ cache.df = DF_FULL

\* an aggregation has returned a table in which it filled a missing department
\* name, and the shared row-set still holds the record with the name missing
C4_Witness ==
    /\ out.op = "get_mapa_departamentos"
    /\ out.res.exc = "none"
    /\ \E i \in 1..Len(out.res.val) : out.res.val[i].DEPARTAMENTO = SIN_REGISTRO
    /\ \E i \in 1..Len(DF_FULL) :
           DF_FULL[i].DEPARTAMENTO = NA /\ DF_FULL[i].COD_DEPARTAMENTO # NA

RealLabel(x) == x \notin {NONE, "", ALL_VALUE}
RealText(x) == x \notin {NONE_TEXT, <<>>, ALL_TEXT}

Matches(r, f) ==
    /\ RealLabel(f.sexo) => r.SEXO_DESC = f.sexo
    /\ RealText(f.departamento) => r.DEPARTAMENTO = f.departamento
    /\ RealLabel(f.categoria_edad) => r.categoria_edad = f.categoria_edad

\* C10: _apply_filters returns exactly the rows of its input, in input order,
\* that equal every filter that is a real value; ALL and absent filters do not
\* narrow, and a value matching no row gives the empty table, not an error.
C10_ApplyFiltersSelectsMatchingRows ==
    out.op = "_apply_filters" =>
        out.res = Returned(SelectSeq(DF_FULL, LAMBDA r : Matches(r, out.f)))

\* two real filters together kept some rows and dropped others
C10_Witness ==
    /\ out.op = "_apply_filters"
    /\ RealLabel(out.f.sexo) /\ RealText(out.f.departamento)
    /\ out.res.exc = "none"
    /\ Len(out.res.val) >= 1
    /\ \E i \in 1..Len(DF_FULL) :
           /\ DF_FULL[i].DEPARTAMENTO = out.f.departamento
           /\ DF_FULL[i].SEXO_DESC # out.f.sexo

Unfiltered(f) ==
    ~RealLabel(f.sexo) /\ ~RealText(f.departamento) /\ ~RealLabel(f.categoria_edad)

RECURSIVE SumMuertes(_)
SumMuertes(rows) ==
    IF Len(rows) = 0 THEN 0 ELSE rows[1].muertes + SumMuertes(Tail(rows))

\* C11: the counts of an unfiltered monthly series add up to the number of
\* rows of the enriched row-set, also when some records have no month.
C11_MonthlySumIsTotal ==
    (out.op = "get_series_mensuales" /\ Unfiltered(out.f)) =>
        /\ out.res.exc = "none"
        /\ SumMuertes(out.res.val) = Len(DF_FULL)

\* the homicide classification: either field qualifies, a null field does not
Qualifies(r) ==
    \/ r.MANERA_MUERTE # NA /\ upper(r.MANERA_MUERTE) = HOMICIDIO
    \/ r.COD_MUERTE # NA /\ StartsWith(upper(r.COD_MUERTE), HOMICIDIO_CODE_PREFIX)

Top5Done == out.op = "get_top5_ciudades_violentas"

\* the rows that pass the filters of the call and qualify as homicides
Homicides(df, f) == SelectSeq(df, LAMBDA r : Matches(r, f) /\ Qualifies(r))

\* C12 as stated: get_top5_ciudades_violentas counts a row if and only if it
\* qualifies as a homicide, by its manner of death or by its cause code: the
\* counts it returns add up to the number of qualifying rows of the row-set.
C12_CountsEveryHomicide ==
    Top5Done =>
        SumMuertes(out.res.val) = Len(SelectSeq(DF_FULL, Qualifies))

\* the department name as the table shows it
ShownDepartment(r) == IF r.DEPARTAMENTO = NA THEN SIN_REGISTRO ELSE r.DEPARTAMENTO

\* the homicides of the city of a returned row
HomicidesOf(df, f, row) ==
    SelectSeq(Homicides(df, f), LAMBDA r :
        r.MUNICIPIO = row.MUNICIPIO /\ ShownDepartment(r) = row.DEPARTAMENTO)

\* the city of row r is one of the returned ones
Returned5(r) ==
    \E i \in 1..Len(out.res.val) :
        /\ out.res.val[i].MUNICIPIO = r.MUNICIPIO
        /\ out.res.val[i].DEPARTAMENTO = ShownDepartment(r)

\* C12 amended: get_top5_ciudades_violentas counts a row if and only if the
\* row passes the filters of the call, qualifies as a homicide, has a
\* municipality name and belongs to one of the at most five cities returned:
\*  - at most five cities are returned, each once and with a municipality name;
\*  - the count of a returned city is the number of the rows of that city that
\*    pass the filters and qualify, so a row that fails a filter or matches
\*    neither field is counted nowhere, and a homicide without a municipality
\*    name is counted nowhere;
\*  - a city with such a row is left out only when five cities are returned,
\*    and no returned city has a smaller count than it.
C12_CountsHomicidesWithMunicipality ==
    Top5Done =>
        /\ out.res.exc = "none"
        /\ Len(out.res.val) <= 5
        /\ \A i \in 1..Len(out.res.val) :
              /\ out.res.val[i].MUNICIPIO # NA
              /\ out.res.val[i].muertes >= 1
              /\ out.res.val[i].muertes = Len(HomicidesOf(DF_FULL, out.f, out.res.val[i]))
              /\ \A j \in 1..Len(out.res.val) :
                    (/\ out.res.val[j].MUNICIPIO = out.res.val[i].MUNICIPIO
                     /\ out.res.val[j].DEPARTAMENTO = out.res.val[i].DEPARTAMENTO) => j = i
        /\ \A k \in 1..Len(DF_FULL) :
              (/\ Matches(DF_FULL[k], out.f) /\ Qualifies(DF_FULL[k])
               /\ DF_FULL[k].MUNICIPIO # NA /\ ~Returned5(DF_FULL[k]))
              => /\ Len(out.res.val) = 5
                 /\ \A i \in 1..5 :
                       out.res.val[i].muertes
                           >= Len(SelectSeq(Homicides(DF_FULL, out.f), LAMBDA r :
                                     /\ r.MUNICIPIO = DF_FULL[k].MUNICIPIO
                                     /\ ShownDepartment(r) = ShownDepartment(DF_FULL[k])))

\* five of six cities were returned and the city left out has as many
\* homicides as one that was returned; a homicide by its cause code alone
\* was counted, a homicide without a municipality name and a natural death
\* were not
C12_Witness ==
    /\ Top5Done /\ Unfiltered(out.f)
    /\ Len(out.res.val) = 5
    /\ \E k \in 1..Len(DF_FULL), i \in 1..5 :
           /\ Qualifies(DF_FULL[k]) /\ DF_FULL[k].MUNICIPIO # NA /\ ~Returned5(DF_FULL[k])
           /\ out.res.val[i].muertes = 1
    /\ \E k \in 1..Len(DF_FULL) :
           /\ Returned5(DF_FULL[k])
           /\ upper(DF_FULL[k].MANERA_MUERTE) # HOMICIDIO
           /\ Qualifies(DF_FULL[k])
    /\ \E k \in 1..Len(DF_FULL) : DF_FULL[k].MUNICIPIO = NA /\ Qualifies(DF_FULL[k])
    /\ \E k \in 1..Len(DF_FULL) : ~Qualifies(DF_FULL[k])
    /\ SumMuertes(out.res.val) = 15

(***************************************************************************)
(* Claims about the joins of the build (SpecFn).                           *)
(***************************************************************************)
BuiltOk == BuildDone /\ result.exc = "none"

\* a code column of a raw table, normalised
Normalized(tab, col) == _normalize_numeric_code(Column(tab, col), CodeWidth[col]).val

\* the code columns of the two raw tables of the call, normalised
NormalizedCodes ==
    [mDane |-> Normalized(call.m, "COD_DANE"),
     mMunicipio |-> Normalized(call.m, "COD_MUNICIPIO"),
     mDepartamento |-> Normalized(call.m, "COD_DEPARTAMENTO"),
     dDane |-> Normalized(call.d, "COD_DANE"),
     dDepartamento |-> Normalized(call.d, "COD_DEPARTAMENTO")]

\* the enriched row comes from record i
FromRecord(row, i, n) ==
    /\ row.COD_DANE = n.mDane[i]
    /\ row.COD_MUNICIPIO = n.mMunicipio[i]
    /\ row.GRUPO_EDAD1 = call.m[i].GRUPO_EDAD1
    /\ row.MES = call.m[i].MES

\* the entries of the division catalog whose code is the code of record i
EntriesOf(i, n) == {j \in 1..Len(call.d) : n.dDane[j] = n.mDane[i]}

\* the name of catalog entry j as the enriched rows carry it
NameOf(j, col, n) ==
    upper(strip(AsString(call.d[j][col],
                         MergedDtype(Dtype(Column(call.d, col)),
                                     \E i \in 1..Len(call.m) : EntriesOf(i, n) = {}))))

\* the enriched row carries the names of catalog entry j
JoinedTo(row, j, n) ==
    /\ row.DEPARTAMENTO = NameOf(j, "DEPARTAMENTO", n)
    /\ row.MUNICIPIO = NameOf(j, "MUNICIPIO", n)

\* the department code resolved for record i joined to entry j
Resolved(i, j, n) ==
    IF n.dDepartamento[j] # NA THEN n.dDepartamento[j] ELSE n.mDepartamento[i]

Coalesced(rows, n) ==
    \A k \in 1..Len(rows) :
        /\ \A col \in DOMAIN rows[k] : col # "COD_DEPARTAMENTO_DIVI"
        /\ \E i \in 1..Len(call.m) :
              /\ FromRecord(rows[k], i, n)
              /\ IF EntriesOf(i, n) = {}
                 THEN rows[k].COD_DEPARTAMENTO = n.mDepartamento[i]
                 ELSE \E j \in EntriesOf(i, n) :
                          /\ JoinedTo(rows[k], j, n)
                          /\ rows[k].COD_DEPARTAMENTO = Resolved(i, j, n)

\* C13: in every enriched row the department code is the division catalog's
\* department code of the joined entry when that is present, and otherwise the
\* record's own normalised department code; no _DIVI column remains.
C13_DepartmentCodeCoalesced ==
    BuiltOk => \A n \in {NormalizedCodes} : Coalesced(result.val, n)

\* one record took the catalog's department code against its own, another
\* kept its own because the joined entry has none
C13_Witness ==
    /\ BuiltOk
    /\ call.m = <<RecConflict, RecNoCity>> /\ call.d = DivipolaFile
    /\ Len(result.val) = 2
    /\ result.val[1].COD_DEPARTAMENTO = <<"5", "0">>
    /\ result.val[2].COD_DEPARTAMENTO = <<"4", "1">>

\* C14: a record whose division code normalises to the null marker is
\* unmatched in the division-catalog join: its department name and
\* municipality name are null, also when the catalog holds an entry whose own
\* code normalises to the null marker.
C14_NullCodeIsUnmatched ==
    BuiltOk =>
        \A k \in 1..Len(result.val) :
            result.val[k].COD_DANE = NA =>
                result.val[k].DEPARTAMENTO = NA /\ result.val[k].MUNICIPIO = NA

====
